---------------------------- MODULE Spec2Model ----------------------------
(***************************************************************************)
(* A model of the steganography core of the repository: the LSB engine     *)
(* (src/core/lsb.py), the Sobel-adaptive engine (src/core/sobel_adaptive.py),*)
(* the attack simulator (src/core/attack_simulator.py) and the metrics     *)
(* (src/utils/metrics.py).                                                 *)
(*                                                                         *)
(* An image is a record [shape, px]: shape is <<H, W>> (grayscale) or      *)
(* <<H, W, 3>> (colour) and px holds the samples in numpy's C order        *)
(* (row, then column, then channel), so sample [i, j, k] of a colour image *)
(* is px[(i*W + j)*3 + k + 1] and sample [i, j] of a grayscale image is    *)
(* px[i*W + j + 1].  A payload is a sequence of character codes and a bit  *)
(* string is a sequence over {0, 1}.                                       *)
(***************************************************************************)
EXTENDS Integers, Sequences, FiniteSets, TLC

VARIABLES
    cover,          \* the caller's cover image
    secret_data,    \* the caller's payload
    pc,             \* "ready" | "embedded" | "failed" | "extracted" | "measured"
    engine,         \* the engine of the last embed: "none" | "lsb" | "adaptive"
    threshold,      \* the threshold passed to the last adaptive embed
    run,            \* what the last embed did (see LSBEmbedCall, AdaptiveEmbedCall)
    stego,          \* the image returned by the last successful embed
    ext,            \* the last extract call and its result
    cap,            \* the last get_embedding_capacity call and its result
    m_in,           \* the two arguments of a metric call
    m_out,          \* the metric call made and its result
    a_image,        \* the image the caller passes to the attack simulator
    a_call,         \* the attack call in progress or last made
    a_pc,           \* "idle" | "jpeg_write" | "jpeg_read" | "jpeg_finally" | "done"
    a_ret,          \* what the call returned or raised (pending until "done")
    files,          \* the working files that exist: path -> content
    created,        \* how many working files have been created so far
    a_prev,         \* the earlier call of the same operation, if the call is a repeat
    calls,          \* the jpeg_compression calls of two concurrent threads
    mask_in,        \* the arguments of a create_embedding_mask call
    mask_out,       \* the masks the call and its relaxed repeat returned
    ui              \* the main window: its attributes and its secret text box

stegoVars == <<cover, secret_data, pc, engine, threshold, run, stego, ext, cap>>

metricVars == <<m_in, m_out>>

attackVars == <<a_image, a_call, a_pc, a_ret, files, created, a_prev, calls>>

maskVars == <<mask_in, mask_out>>

uiVars == <<ui>>

vars == <<stegoVars, metricVars, attackVars, maskVars, uiVars>>

(***************************************************************************)
(* Bounds of the model.                                                    *)
(***************************************************************************)
MaxH == 3
MinW == 7
MaxW == 8
MaxSample == 3
MaxLen == 2
MaxPix == 2
MaxDim == 4
MaxBits == 3
MaxPaths == 2

\* The text payloads are cut from, read cyclically: 'A', U+00FF, 'B', NUL
\* and U+012C (a code above 255).
PayloadText == <<65, 255, 66, 0, 300>>

(***************************************************************************)
(* Images.                                                                 *)
(***************************************************************************)
NoImage == [shape |-> <<>>, px |-> <<>>]

Height(image) == image.shape[1]

Width(image) == image.shape[2]

\* len(image.shape)
NDim(image) == Len(image.shape)

\* len(image.flatten())
FlatSize(image) == Len(image.px)

(***************************************************************************)
(* format(ord(char), '08b'): the binary digits of n, most significant      *)
(* first, padded with zeros to a width of at least 8.  A code above 255    *)
(* gives more than 8 digits.                                               *)
(***************************************************************************)
RECURSIVE BinDigits(_)
BinDigits(n) == IF n < 2 THEN <<n>> ELSE Append(BinDigits(n \div 2), n % 2)

\* The eight low digits of n, least significant first.
Format08b_LsbFirst(n) == [i \in 1..8 |-> (n \div (2 ^ (i - 1))) % 2]

Format08b(n) ==
    LET d == BinDigits(n)
    IN  IF Len(d) >= 8 THEN d ELSE [i \in 1..(8 - Len(d)) |-> 0] \o d

Terminator == [i \in 1..8 |-> 0]

\* ''.join(format(ord(char), '08b') for char in secret_data)
RECURSIVE JoinBits(_)
JoinBits(s) == IF s = <<>> THEN <<>> ELSE Format08b(Head(s)) \o JoinBits(Tail(s))

\* binary_data after the terminator is appended (lsb.py 23-25).
BinaryData(s) == JoinBits(s) \o Terminator

\* int(byte, 2)
RECURSIVE IntOfBits(_)
IntOfBits(b) ==
    IF b = <<>> THEN 0 ELSE 2 * IntOfBits(SubSeq(b, 1, Len(b) - 1)) + b[Len(b)]

\* A decoding that also turns the bits left over after the last complete
\* group into a character.
DecodeBytes_Padded(bits) ==
    [g \in 1..((Len(bits) + 7) \div 8) |->
        IntOfBits(SubSeq(bits, 8 * g - 7, IF 8 * g <= Len(bits) THEN 8 * g ELSE Len(bits)))]

\* The decoding loop of extract: one character per complete 8-bit group.
RECURSIVE DecodeBytes(_)
DecodeBytes(bits) ==
    IF Len(bits) < 8 THEN <<>>
    ELSE <<IntOfBits(SubSeq(bits, 1, 8))>> \o DecodeBytes(SubSeq(bits, 9, Len(bits)))

\* A store of the bit itself, which drops the upper seven bits.
SetLSB_Overwrite(pixel, bit) == bit

\* (pixel & 0xFE) | bit on an 8-bit sample.
SetLSB(pixel, bit) == (pixel - (pixel % 2)) + bit

\* pixel & 1
GetLSB(pixel) == pixel % 2

\* An assignment of the image itself: the name refers to the caller's buffer.
CopyImage_Alias(image) == [alias |-> TRUE, px |-> image.px]

\* image.copy(): a new buffer that holds the samples of the image.
CopyImage(image) == [alias |-> FALSE, px |-> image.px]

(***************************************************************************)
(* LSBSteganography.embed.  The loop visits the pixels p = i*W + j in      *)
(* raster order; st is [px, di]: the samples written so far and            *)
(* data_index.                                                             *)
(***************************************************************************)
RECURSIVE LSBWriteChannels(_, _, _, _, _)
LSBWriteChannels(st, w, bits, p, k) ==
    IF k = 3 THEN st
    ELSE IF st.di < Len(bits)
         THEN LSBWriteChannels(
                  [px |-> [st.px EXCEPT ![p * 3 + k + 1] = SetLSB(@, bits[st.di + 1])],
                   di |-> st.di + 1], w, bits, p, k + 1)
         ELSE LSBWriteChannels(st, w, bits, p, k + 1)

RECURSIVE LSBEmbedLoop(_, _, _, _)
LSBEmbedLoop(st, shape, bits, p) ==
    IF p >= shape[1] * shape[2] \/ st.di >= Len(bits) THEN st
    ELSE IF Len(shape) = 2
         THEN LSBEmbedLoop(
                  [px |-> [st.px EXCEPT ![p + 1] = SetLSB(@, bits[st.di + 1])],
                   di |-> st.di + 1], shape, bits, p + 1)
         ELSE LSBEmbedLoop(LSBWriteChannels(st, shape[2], bits, p, 0), shape, bits, p + 1)

\* A capacity check that compares whole bytes with slots.
LSBCapacityExceeded_Bytes(cover_image, binary_data) ==
    FlatSize(cover_image) < Len(binary_data) \div 8

\* A capacity check that leaves the terminator out of the count.
LSBCapacityExceeded_NoTerminator(cover_image, binary_data) ==
    FlatSize(cover_image) < Len(binary_data) - 8

\* The capacity check of embed (lsb.py 28-30).
LSBCapacityExceeded(cover_image, binary_data) ==
    FlatSize(cover_image) < Len(binary_data)

\* One call of embed: err, the image returned (NoImage when it raises), the
\* number of sample stores it made, the caller's buffer after the call
\* (arg), and whether the image returned is a buffer of its own (fresh).
\* The stores go to stego_image, which is the copy made at line 33.
LSBEmbedCall(cover_image, secret) ==
    LET binary_data == BinaryData(secret)
    IN  IF LSBCapacityExceeded(cover_image, binary_data)
        THEN [err |-> "CapacityError", ret |-> NoImage, writes |-> 0,
              arg |-> cover_image, used |-> 0, steps |-> 0, fresh |-> FALSE]
        ELSE LET stego_image == CopyImage(cover_image)
                 st == LSBEmbedLoop([px |-> stego_image.px, di |-> 0],
                                    cover_image.shape, binary_data, 0)
                 written == [shape |-> cover_image.shape, px |-> st.px]
             IN  [err |-> "none", ret |-> written, writes |-> st.di,
                  arg |-> IF stego_image.alias THEN written ELSE cover_image,
                  used |-> 0, steps |-> 0, fresh |-> ~stego_image.alias]

(***************************************************************************)
(* LSBSteganography.extract.  bits is binary_data; after the samples of a  *)
(* pixel are appended the loop tests len(binary_data) % 8 == 0 and then    *)
(* the last eight bits.                                                    *)
(***************************************************************************)
PixelBits(image, p) ==
    IF NDim(image) = 2 THEN <<GetLSB(image.px[p + 1])>>
    ELSE [k \in 1..3 |-> GetLSB(image.px[p * 3 + k])]

RECURSIVE LSBExtractLoop(_, _, _)
LSBExtractLoop(image, bits, p) ==
    IF p >= Height(image) * Width(image) THEN DecodeBytes(bits)
    ELSE LET b == bits \o PixelBits(image, p)
         IN  IF Len(b) % 8 = 0 /\ SubSeq(b, Len(b) - 7, Len(b)) = Terminator
             THEN DecodeBytes(SubSeq(b, 1, Len(b) - 8))
             ELSE LSBExtractLoop(image, b, p + 1)

LSBExtract(stego_image) == LSBExtractLoop(stego_image, <<>>, 0)

\* A capacity that forgets the three channels of a colour image.
LSBGetEmbeddingCapacity_OneChannel(cover_image) ==
    IF NDim(cover_image) \in {2, 3}
    THEN (Height(cover_image) * Width(cover_image)) \div 8
    ELSE 0

\* LSBSteganography.get_embedding_capacity
LSBGetEmbeddingCapacity(cover_image) ==
    IF NDim(cover_image) = 2 THEN FlatSize(cover_image) \div 8
    ELSE IF NDim(cover_image) = 3
         THEN (Height(cover_image) * Width(cover_image) * 3) \div 8
         ELSE 0

(***************************************************************************)
(* SobelAdaptiveSteganography.compute_sobel_gradient.  The library calls   *)
(* are modelled by what OpenCV computes on 8-bit input:                    *)
(*   cvtColor(RGB2GRAY): (9798 R + 19235 G + 3735 B + 2^14) >> 15;         *)
(*   Sobel(ksize=3): the 3x3 kernels [1 2 1]^T [-1 0 1] and its transpose, *)
(*     borders reflected without repeating the edge (BORDER_REFLECT_101;   *)
(*     an axis of length 1 maps every index to 0);                         *)
(*   magnitude: sqrt(gx^2 + gy^2);                                         *)
(*   normalize(0, 255, NORM_MINMAX) followed by astype(uint8):             *)
(*     floor(255 * (m - min) / (max - min)), and all 0 when max = min.     *)
(* Both derivatives vanish at the corners of every image (the reflected    *)
(* neighbours cancel), so min is 0 and the value is                        *)
(* floor(255 * sqrt(m2 / max2)) = isqrt(floor(65025 * m2 / max2)), with m2 *)
(* the squared magnitude: integer arithmetic, exact.  (Floating point can  *)
(* differ from the exact value only where 255*m/max is an integer; with    *)
(* the samples and thresholds of this model no threshold is that close.)   *)
(***************************************************************************)
RGB2Gray(r, g, b) == (9798 * r + 19235 * g + 3735 * b + 16384) \div 32768

\* The grayscale plane of an image, one value per pixel in raster order.
GrayPlane(image) ==
    IF NDim(image) = 3
    THEN [p \in 1..(Height(image) * Width(image)) |->
             RGB2Gray(image.px[3 * p - 2], image.px[3 * p - 1], image.px[3 * p])]
    ELSE image.px

Reflect101(i, n) ==
    IF n = 1 THEN 0 ELSE IF i < 0 THEN -i ELSE IF i >= n THEN 2 * n - 2 - i ELSE i

SobelWeight(d) == IF d = 0 THEN 2 ELSE 1

Sq(x) == x * x

\* The squared gradient magnitude at pixel (i, j) of the h x w plane g.
SobelMag2(g, h, w, i, j) ==
    LET G(y, x) == g[Reflect101(y, h) * w + Reflect101(x, w) + 1]
        gx == SobelWeight(-1) * (G(i - 1, j + 1) - G(i - 1, j - 1))
                + SobelWeight(0) * (G(i, j + 1) - G(i, j - 1))
                + SobelWeight(1) * (G(i + 1, j + 1) - G(i + 1, j - 1))
        gy == SobelWeight(-1) * (G(i + 1, j - 1) - G(i - 1, j - 1))
                + SobelWeight(0) * (G(i + 1, j) - G(i - 1, j))
                + SobelWeight(1) * (G(i + 1, j + 1) - G(i - 1, j + 1))
    IN  Sq(gx) + Sq(gy)

\* The largest of the first n entries of s (0 for none).
RECURSIVE MaxUpTo(_, _)
MaxUpTo(s, n) ==
    IF n = 0 THEN 0
    ELSE LET m == MaxUpTo(s, n - 1) IN IF s[n] > m THEN s[n] ELSE m

SeqMax(s) == MaxUpTo(s, Len(s))

\* floor(sqrt(n)) for 0 <= n < (hi + 1)^2, by bisection on lo..hi.
RECURSIVE IsqrtIn(_, _, _)
IsqrtIn(n, lo, hi) ==
    IF lo = hi THEN lo
    ELSE LET mid == (lo + hi + 1) \div 2
         IN  IF mid * mid <= n THEN IsqrtIn(n, mid, hi) ELSE IsqrtIn(n, lo, mid - 1)

ComputeSobelGradient(image) ==
    LET h == Height(image)
        w == Width(image)
        g == GrayPlane(image)
        m2 == [p \in 1..(h * w) |-> SobelMag2(g, h, w, (p - 1) \div w, (p - 1) % w)]
        max2 == SeqMax(m2)
    IN  [p \in 1..(h * w) |->
            IF max2 = 0 THEN 0 ELSE IsqrtIn((65025 * m2[p]) \div max2, 0, 255)]

\* A mask that also selects the pixels whose gradient equals the threshold.
CreateEmbeddingMask_Inclusive(gradient, t) ==
    [p \in 1..Len(gradient) |-> IF gradient[p] >= t THEN 1 ELSE 0]

\* SobelAdaptiveSteganography.create_embedding_mask
CreateEmbeddingMask(gradient, t) ==
    [p \in 1..Len(gradient) |-> IF gradient[p] > t THEN 1 ELSE 0]

\* np.sum(mask)
RECURSIVE SumUpTo(_, _)
SumUpTo(s, n) == IF n = 0 THEN 0 ELSE SumUpTo(s, n - 1) + s[n]

SeqSum(s) == SumUpTo(s, Len(s))

\* available_capacity of a mask (sobel_adaptive.py 81-86 and 94-99).
AvailableCapacity(image, mask) ==
    IF NDim(image) = 3 THEN SeqSum(mask) * 3 ELSE SeqSum(mask)

\* The fixed step of the relaxation loop.
ThresholdStep == 5

\* The relaxation loop (sobel_adaptive.py 90-99): r is [thr, mask, steps].
RECURSIVE RelaxLoop(_, _, _, _)
RelaxLoop(image, gradient, data_len, r) ==
    IF AvailableCapacity(image, r.mask) < data_len /\ r.thr > 0
    THEN RelaxLoop(image, gradient, data_len,
                   [thr |-> r.thr - ThresholdStep,
                    mask |-> CreateEmbeddingMask(gradient, r.thr - ThresholdStep),
                    steps |-> r.steps + 1])
    ELSE r

\* An embedding loop that ignores the mask.
AdaptiveEmbedLoop_Unmasked(st, shape, mask, bits, p) == LSBEmbedLoop(st, shape, bits, p)

\* The embedding loop of the adaptive engine: as LSBEmbedLoop, on the pixels
\* of the mask only.
RECURSIVE AdaptiveEmbedLoop(_, _, _, _, _)
AdaptiveEmbedLoop(st, shape, mask, bits, p) ==
    IF p >= shape[1] * shape[2] \/ st.di >= Len(bits) THEN st
    ELSE IF mask[p + 1] # 1 THEN AdaptiveEmbedLoop(st, shape, mask, bits, p + 1)
    ELSE IF Len(shape) = 2
         THEN AdaptiveEmbedLoop(
                  [px |-> [st.px EXCEPT ![p + 1] = SetLSB(@, bits[st.di + 1])],
                   di |-> st.di + 1], shape, mask, bits, p + 1)
         ELSE AdaptiveEmbedLoop(LSBWriteChannels(st, shape[2], bits, p, 0),
                                shape, mask, bits, p + 1)

\* One call of SobelAdaptiveSteganography.embed; used is new_threshold, the
\* threshold of the mask the call ended with, and steps the number of times
\* the relaxation loop lowered it.
AdaptiveEmbedCall(cover_image, secret, t) ==
    LET gradient == ComputeSobelGradient(cover_image)
        binary_data == BinaryData(secret)
        r == RelaxLoop(cover_image, gradient, Len(binary_data),
                       [thr |-> t, mask |-> CreateEmbeddingMask(gradient, t),
                        steps |-> 0])
    IN  IF AvailableCapacity(cover_image, r.mask) < Len(binary_data)
        THEN [err |-> "CapacityError", ret |-> NoImage, writes |-> 0,
              arg |-> cover_image, used |-> r.thr, steps |-> r.steps,
              fresh |-> FALSE]
        ELSE LET stego_image == CopyImage(cover_image)
                 st == AdaptiveEmbedLoop([px |-> stego_image.px, di |-> 0],
                                         cover_image.shape, r.mask, binary_data, 0)
                 written == [shape |-> cover_image.shape, px |-> st.px]
             IN  [err |-> "none", ret |-> written, writes |-> st.di,
                  arg |-> IF stego_image.alias THEN written ELSE cover_image,
                  used |-> r.thr, steps |-> r.steps,
                  fresh |-> ~stego_image.alias]

\* The scanning loop of SobelAdaptiveSteganography.extract.
RECURSIVE AdaptiveExtractLoop(_, _, _, _)
AdaptiveExtractLoop(image, mask, bits, p) ==
    IF p >= Height(image) * Width(image) THEN DecodeBytes(bits)
    ELSE IF mask[p + 1] # 1 THEN AdaptiveExtractLoop(image, mask, bits, p + 1)
    ELSE LET b == bits \o PixelBits(image, p)
         IN  IF /\ Len(b) % 8 = 0
                /\ Len(b) >= 8
                /\ SubSeq(b, Len(b) - 7, Len(b)) = Terminator
             THEN DecodeBytes(SubSeq(b, 1, Len(b) - 8))
             ELSE AdaptiveExtractLoop(image, mask, b, p + 1)

AdaptiveExtract(stego_image, t) ==
    AdaptiveExtractLoop(stego_image,
                        CreateEmbeddingMask(ComputeSobelGradient(stego_image), t),
                        <<>>, 0)

\* A capacity that counts a started byte as a whole one.
AdaptiveGetEmbeddingCapacity_RoundUp(cover_image, t) ==
    LET available_pixels ==
            SeqSum(CreateEmbeddingMask(ComputeSobelGradient(cover_image), t))
    IN  IF NDim(cover_image) = 2 THEN (available_pixels + 7) \div 8
        ELSE IF NDim(cover_image) = 3 THEN (available_pixels * 3 + 7) \div 8
        ELSE 0

\* SobelAdaptiveSteganography.get_embedding_capacity
AdaptiveGetEmbeddingCapacity(cover_image, t) ==
    LET available_pixels ==
            SeqSum(CreateEmbeddingMask(ComputeSobelGradient(cover_image), t))
    IN  IF NDim(cover_image) = 2 THEN available_pixels \div 8
        ELSE IF NDim(cover_image) = 3 THEN (available_pixels * 3) \div 8
        ELSE 0

(***************************************************************************)
(* calculate_psnr (src/utils/metrics.py).  Both arguments are uint8        *)
(* images, so the two dtype conversions change nothing.  The mean squared  *)
(* error is the rational sse / n; the value returned when it is not 0 is   *)
(* 20*log10(255 / sqrt(sse / n)), a finite real that the result carries as *)
(* the pair (sse, n).                                                      *)
(***************************************************************************)
\* sum((original - modified) ** 2) over the first n samples.
RECURSIVE SquaredErrorUpTo(_, _, _)
SquaredErrorUpTo(a, b, n) ==
    IF n = 0 THEN 0 ELSE SquaredErrorUpTo(a, b, n - 1) + Sq(a[n] - b[n])

\* A sum of the differences themselves, not of their squares.
SumSquaredError_Signed(original, modified) ==
    LET d == [k \in 1..FlatSize(original) |-> original.px[k] - modified.px[k]]
    IN  SumUpTo(d, Len(d))

SumSquaredError(original, modified) ==
    SquaredErrorUpTo(original.px, modified.px, FlatSize(original))

\* The result of a metric call: the error raised or the kind of value
\* returned; sse and n are the sum and the count behind a PSNR, num/den the
\* quotient a bit error rate is.
NoMetric ==
    [op |-> "none", err |-> "none", kind |-> "none", sse |-> 0, n |-> 0,
     num |-> 0, den |-> 0]

CalculatePsnr(original, modified) ==
    IF original.shape # modified.shape
    THEN [NoMetric EXCEPT !.op = "psnr", !.err = "ShapeMismatchError"]
    ELSE LET sse == SumSquaredError(original, modified)
         IN  IF sse = 0
             THEN [NoMetric EXCEPT !.op = "psnr", !.kind = "inf",
                                   !.n = FlatSize(original)]
             ELSE [NoMetric EXCEPT !.op = "psnr", !.kind = "finite",
                                   !.sse = sse, !.n = FlatSize(original)]

(***************************************************************************)
(* calculate_ssim.  The samples of the SSIM map are floating-point and are *)
(* not computed; what is modelled is the shape check, the conversion to    *)
(* grayscale, and the rule of scipy.signal.convolve2d(mode='valid'): one   *)
(* of the image and the window must be at least as large as the other in   *)
(* every dimension, else it raises ValueError.  When the two grayscale     *)
(* planes are equal every intermediate array of lines 72-82 is computed    *)
(* twice from equal operands, numerator and denominator of line 85 are the *)
(* same positive number (C1, C2 > 0 dominate any rounding of a variance),  *)
(* each entry of the map is exactly 1 and so is the mean: kind "one".      *)
(* Otherwise the value is some number: kind "value".                       *)
(***************************************************************************)
\* cv2.cvtColor(image, cv2.COLOR_BGR2GRAY): channel 0 is blue.
SsimGray(image) ==
    IF NDim(image) = 3
    THEN [shape |-> <<Height(image), Width(image)>>,
          px |-> [p \in 1..(Height(image) * Width(image)) |->
                     RGB2Gray(image.px[3 * p], image.px[3 * p - 1], image.px[3 * p - 2])]]
    ELSE image

\* The default win_size of calculate_ssim.
WinSize == 11

\* scipy.signal.convolve2d(in1, in2, mode='valid') raises unless one input
\* is at least as large as the other in every dimension.
ConvolveValidRaises(h, w, win_size) ==
    ~ \/ (h >= win_size /\ w >= win_size)
      \/ (win_size >= h /\ win_size >= w)

\* A shape check that compares the number of samples only.
SsimShapeMismatch_Size(original, modified) ==
    FlatSize(original) # FlatSize(modified)

\* The shape check of calculate_ssim (metrics.py 50-51).
SsimShapeMismatch(original, modified) == original.shape # modified.shape

CalculateSsim(original, modified, win_size) ==
    IF SsimShapeMismatch(original, modified)
    THEN [NoMetric EXCEPT !.op = "ssim", !.err = "ShapeMismatchError"]
    ELSE LET o == SsimGray(original)
             m == SsimGray(modified)
         IN  IF ConvolveValidRaises(Height(o), Width(o), win_size)
             THEN [NoMetric EXCEPT !.op = "ssim", !.err = "LibraryError"]
             ELSE [NoMetric EXCEPT !.op = "ssim",
                                   !.kind = IF o = m THEN "one" ELSE "value"]

(***************************************************************************)
(* calculate_ber on two sequences of bits.  error_bits / len(original_bits)*)
(* is a numpy division: for two empty sequences it is 0/0, which gives nan *)
(* (with a warning), not an exception.                                     *)
(***************************************************************************)
\* np.sum(original_bits != extracted_bits)
ErrorBits(original_bits, extracted_bits) ==
    Cardinality({i \in 1..Len(original_bits) : original_bits[i] # extracted_bits[i]})

\* A length check that only rejects a shorter extracted sequence.
BerLengthMismatch_Shorter(original_bits, extracted_bits) ==
    Len(original_bits) > Len(extracted_bits)

\* The length check of calculate_ber (metrics.py 101-102).
BerLengthMismatch(original_bits, extracted_bits) ==
    Len(original_bits) # Len(extracted_bits)

CalculateBer(original_bits, extracted_bits) ==
    IF BerLengthMismatch(original_bits, extracted_bits)
    THEN [NoMetric EXCEPT !.op = "ber", !.err = "LengthMismatchError"]
    ELSE IF Len(original_bits) = 0
         THEN [NoMetric EXCEPT !.op = "ber", !.kind = "nan"]
         ELSE [NoMetric EXCEPT !.op = "ber", !.kind = "ratio",
                               !.num = ErrorBits(original_bits, extracted_bits),
                               !.den = Len(original_bits)]

(***************************************************************************)
(* calculate_ber_text.  A text argument is [absent, s]: absent is None,    *)
(* otherwise s is the string.  The value returned is num/den.              *)
(***************************************************************************)
NoText == [absent |-> TRUE, s |-> <<>>]

Min(x, y) == IF x <= y THEN x ELSE y

\* An error count that also counts what extracted has beyond original.
TextErrorCount_Symmetric(original_text, extracted_text) ==
    LET min_length == Min(Len(original_text), Len(extracted_text))
        longest == IF Len(original_text) >= Len(extracted_text)
                   THEN Len(original_text) ELSE Len(extracted_text)
    IN  Cardinality({i \in 1..min_length : original_text[i] # extracted_text[i]})
            + (longest - min_length)

\* error_count of metrics.py 166-170.
TextErrorCount(original_text, extracted_text) ==
    LET min_length == Min(Len(original_text), Len(extracted_text))
    IN  Cardinality({i \in 1..min_length : original_text[i] # extracted_text[i]})
            + (IF Len(original_text) > min_length
               THEN Len(original_text) - min_length ELSE 0)

CalculateBerText(original_text, extracted_text) ==
    IF original_text.absent \/ extracted_text.absent
    THEN [NoMetric EXCEPT !.op = "ber_text", !.kind = "ratio", !.num = 1, !.den = 1]
    ELSE IF Min(Len(original_text.s), Len(extracted_text.s)) = 0
         THEN [NoMetric EXCEPT !.op = "ber_text", !.kind = "ratio",
                               !.num = 1, !.den = 1]
         ELSE [NoMetric EXCEPT !.op = "ber_text", !.kind = "ratio",
                               !.num = TextErrorCount(original_text.s, extracted_text.s),
                               !.den = Len(original_text.s)]

(***************************************************************************)
(* AttackSimulator (src/core/attack_simulator.py).  The samples an attack  *)
(* returns are not computed: a result carries its shape and the library    *)
(* call that produced it (lib, p1, p2, and for the noise the random draw). *)
(* A crop ratio is a whole number of hundredths, a sigma a whole number.   *)
(* The raise sites of the code all raise ValueError; err names them by the *)
(* failure they report.  "LibraryError" is a cv2.error and                 *)
(* "AttributeError" the failure of None.shape.  used_image tells whether   *)
(* the operator got as far as reading its image argument, fresh whether    *)
(* the image returned is a buffer of its own: what cv2.imread, cv2.resize, *)
(* cv2.GaussianBlur and astype return always is.                           *)
(***************************************************************************)
NoRet ==
    [err |-> "none", shape |-> <<>>, lib |-> "none", p1 |-> 0, p2 |-> 0,
     draw |-> 0, used_image |-> FALSE, fresh |-> FALSE]

Raised(e, used) == [NoRet EXCEPT !.err = e, !.used_image = used]

Returned(shape, lib, p1, p2, draw) ==
    [err |-> "none", shape |-> shape, lib |-> lib, p1 |-> p1, p2 |-> p2,
     draw |-> draw, used_image |-> TRUE, fresh |-> TRUE]

\* A quality check that lets 0 through.
JpegQualityRejected_ZeroAllowed(quality) == quality < 0 \/ quality > 100

\* The parameter check of jpeg_compression (attack_simulator.py 34-35).
JpegQualityRejected(quality) == quality < 1 \/ quality > 100

\* cv2.imread(path) with the default flag decodes to three channels whatever
\* was written; the resize of lines 49-50 keeps the channels it is given.
JpegDecodedShape(image) == <<Height(image), Width(image), 3>>

JpegResult(image, quality) ==
    LET compressed == JpegDecodedShape(image)
    IN  IF compressed # image.shape
        THEN Returned(<<Height(image), Width(image), compressed[3]>>, "jpeg", quality, 1, 0)
        ELSE Returned(compressed, "jpeg", quality, 0, 0)

\* A blur that makes an even kernel size odd by rounding it down.
GaussianBlur_RoundDown(image, kernel_size, sigma) ==
    LET k == IF kernel_size % 2 = 0 THEN kernel_size - 1 ELSE kernel_size
    IN  IF k <= 0 /\ sigma <= 0
        THEN Raised("LibraryError", TRUE)
        ELSE Returned(image.shape, "GaussianBlur", k, sigma, 0)

\* gaussian_blur.  cv2.GaussianBlur fails (an assertion) only when the
\* kernel size is not positive and sigma is not positive either: a kernel
\* size <= 0 is derived from a positive sigma, and a sigma <= 0 from the
\* kernel size.
GaussianBlur(image, kernel_size, sigma) ==
    LET k == IF kernel_size % 2 = 0 THEN kernel_size + 1 ELSE kernel_size
    IN  IF k <= 0 /\ sigma <= 0
        THEN Raised("LibraryError", TRUE)
        ELSE Returned(image.shape, "GaussianBlur", k, sigma, 0)

\* A ratio check that lets 0 and 1 through.
CropRatioRejected_Inclusive(crop_ratio) == crop_ratio < 0 \/ crop_ratio > 100

\* The parameter check of crop_attack (attack_simulator.py 88-89).
CropRatioRejected(crop_ratio) == crop_ratio <= 0 \/ crop_ratio >= 100

\* crop_attack.  cv2.resize fails on an empty crop.
CropAttack(image, crop_ratio) ==
    IF CropRatioRejected(crop_ratio) THEN Raised("InvalidParameterError", FALSE)
    ELSE LET height == Height(image)
             width == Width(image)
             crop_height == (height * crop_ratio) \div 100
             crop_width == (width * crop_ratio) \div 100
         IN  IF crop_height = 0 \/ crop_width = 0
             THEN Raised("LibraryError", TRUE)
             ELSE Returned(<<height, width>> \o SubSeq(image.shape, 3, NDim(image)),
                           "resize", crop_height, crop_width, 0)

\* gaussian_noise; draw is what np.random.normal returned, which with a
\* sigma of 0 is the mean whatever the generator's state.  A negative
\* sigma makes np.random.normal raise ValueError, the exception the
\* parameter checks of the other operators raise.
GaussianNoise(image, mean, sigma, draw) ==
    IF sigma < 0 THEN Raised("InvalidParameterError", TRUE)
    ELSE Returned(image.shape, "noise", mean, sigma, IF sigma = 0 THEN 0 ELSE draw)

\* No earlier call: n counts the earlier calls, ret is what the last returned.
NoPrev == [n |-> 0, ret |-> NoRet]

\* No concurrent calls.
NoCalls == <<>>

\* A finally clause that leaves the working file behind.
RemoveIfExists_Keep(fs, path) == fs

\* if os.path.exists(temp_path): os.remove(temp_path)
RemoveIfExists(fs, path) ==
    IF path \in DOMAIN fs
    THEN [other \in DOMAIN fs \ {path} |-> fs[other]]
    ELSE fs

\* params.get(key, default)
Get(params, key, default) == IF key \in DOMAIN params THEN params[key] ELSE default

EmptyDict == [key \in {} |-> 0]

NoCall ==
    [via |-> "none", kind |-> "none", has_params |-> FALSE, params |-> EmptyDict,
     op |-> "none", quality |-> 0, kernel_size |-> 0, sigma |-> 0,
     crop_ratio |-> 0, mean |-> 0, path |-> 0]

\* The operator call apply_attack makes for attack_type and params
\* (attack_simulator.py 144-166), op "none" when it raises instead;
\* default_quality is the quality used when params gives none.
DispatchWith(default_quality, attack_type, has_params, given) ==
    LET params == IF has_params THEN given ELSE EmptyDict
        c == [NoCall EXCEPT !.via = "apply", !.kind = attack_type,
                            !.has_params = has_params, !.params = given]
    IN  IF attack_type = "jpeg"
        THEN [c EXCEPT !.op = "jpeg",
                       !.quality = Get(params, "quality", default_quality)]
        ELSE IF attack_type = "blur"
        THEN [c EXCEPT !.op = "blur", !.kernel_size = Get(params, "kernel_size", 3),
                       !.sigma = Get(params, "sigma", 1)]
        ELSE IF attack_type = "crop"
        THEN [c EXCEPT !.op = "crop", !.crop_ratio = Get(params, "crop_ratio", 90)]
        ELSE IF attack_type = "noise"
        THEN [c EXCEPT !.op = "noise", !.mean = Get(params, "mean", 0),
                       !.sigma = Get(params, "sigma", 10)]
        ELSE c

\* A dispatch whose default quality is 90.
Dispatch_Quality90(attack_type, has_params, given) ==
    DispatchWith(90, attack_type, has_params, given)

Dispatch(attack_type, has_params, given) ==
    DispatchWith(75, attack_type, has_params, given)

(***************************************************************************)
(* The inputs: every shape of 1..MaxH rows and MinW..MaxW columns,         *)
(* grayscale and colour.  The samples of a cover follow                    *)
(* px[k] = (a*k + b) mod (MaxSample + 1), which gives flat, striped and    *)
(* diagonal textures of either parity; with f = 1 the first half of the    *)
(* samples is flat (b) and only the rest is textured.  A payload is a      *)
(* window of up to MaxLen characters of PayloadText.  The thresholds are   *)
(* 0 (no relaxation possible), 3 (not a multiple of the step) and 30 (the  *)
(* default).                                                               *)
(***************************************************************************)
Shapes ==
    {<<h, w>> : h \in 1..MaxH, w \in MinW..MaxW}
        \cup {<<h, w, 3>> : h \in 1..MaxH, w \in MinW..MaxW}

SlotCount(shape) == IF Len(shape) = 2 THEN shape[1] * shape[2] ELSE shape[1] * shape[2] * 3

Texture(shape, a, b, f) ==
    [shape |-> shape,
     px |-> [k \in 1..SlotCount(shape) |->
                IF f = 1 /\ 2 * k <= SlotCount(shape) THEN b
                ELSE (a * k + b) % (MaxSample + 1)]]

Covers ==
    {Texture(s, a, b, f) : s \in Shapes, a \in 0..MaxSample, b \in 0..1, f \in 0..1}

Window(start, n) ==
    [i \in 1..n |-> PayloadText[((start + i - 2) % Len(PayloadText)) + 1]]

Payloads == {Window(start, n) : start \in 1..Len(PayloadText), n \in 0..MaxLen}

Thresholds == {0, 3, 30}

NoExt == [from |-> "none", by |-> "none", thr |-> 0, text |-> <<>>]

NoCap == [by |-> "none", thr |-> 0, bytes |-> 0]

NoRun ==
    [err |-> "none", ret |-> NoImage, writes |-> 0, arg |-> NoImage, used |-> 0,
     steps |-> 0, fresh |-> FALSE]

\* The images given to the metrics: one row of up to MaxPix grayscale
\* pixels or a single colour pixel, every sample dark, odd or saturated.
MetricSamples == {0, 1, 255}

MetricShapes == {<<1, n>> : n \in 1..MaxPix} \cup {<<1, 1, 3>>}

MetricImages ==
    UNION {{[shape |-> sh, px |-> x] : x \in [1..SlotCount(sh) -> MetricSamples]}
           : sh \in MetricShapes}

AttackIdle ==
    /\ a_image = NoImage
    /\ a_call = NoCall
    /\ a_pc = "off"
    /\ a_ret = NoRet
    /\ files = EmptyDict
    /\ created = 0
    /\ a_prev = NoPrev
    /\ calls = NoCalls

\* The images given to calculate_ssim besides: flat images whose sides are
\* below, at and above the window size, grayscale and colour.
SsimSides == {1, WinSize, WinSize + 1}

SsimShapes ==
    {<<h, w>> : h \in SsimSides, w \in SsimSides}
        \cup {<<1, WinSize + 1, 3>>, <<WinSize, WinSize, 3>>}

SsimImages ==
    {[shape |-> sh, px |-> [k \in 1..SlotCount(sh) |-> v]] :
        sh \in SsimShapes, v \in {0, 255}}

\* The bit sequences given to calculate_ber, of up to MaxBits bits.
BitSeqs == UNION {[1..n -> {0, 1}] : n \in 0..MaxBits}

\* The texts given to calculate_ber_text: None, or up to MaxLen of 'A', 'B'.
Texts ==
    {NoText} \cup {[absent |-> FALSE, s |-> t] :
                      t \in UNION {[1..n -> {65, 66}] : n \in 0..MaxLen}}

\* The argument pairs of a metric call; of tells what the arguments are.
\* The images of window size are given to calculate_ssim only.
MetricInputs ==
    [of : {"images"}, a : MetricImages, b : MetricImages]
        \cup [of : {"window_images"}, a : SsimImages, b : SsimImages]
        \cup [of : {"bits"}, a : BitSeqs, b : BitSeqs]
        \cup [of : {"texts"}, a : Texts, b : Texts]

MetricsIdle ==
    m_in = [of |-> "none", a |-> NoImage, b |-> NoImage] /\ m_out = NoMetric

\* No create_embedding_mask call is made.
MaskIdle == mask_in = [gradient |-> <<>>, t |-> 0] /\ mask_out = <<>>

\* The main window after __init__: cover_image, stego_image, attacked_image
\* and original_secret are attributes the handlers create, so none exists
\* yet; the text box is empty, the method is the LSB engine and the threshold
\* spin box shows its default (main_window.py 147-149).  handler and outcome
\* name the last handler run and how it ended, ber is the value the last BER
\* computation returned and ber_ref the reference text it was given.
NoWindow ==
    [cover_image |-> NoImage, stego_image |-> NoImage, attacked_image |-> NoRet,
     original_secret |-> NoText, txt_secret |-> <<>>, method |-> "lsb",
     spn_threshold |-> 30, handler |-> "none", outcome |-> "none",
     ber |-> NoMetric, ber_ref |-> NoText]

UiIdle == ui = NoWindow

StegoIdle ==
    /\ cover = NoImage
    /\ secret_data = <<>>
    /\ pc = "off"
    /\ engine = "none"
    /\ threshold = 0
    /\ run = NoRun
    /\ stego = NoImage
    /\ ext = NoExt
    /\ cap = NoCap

Init ==
    /\ MetricsIdle
    /\ AttackIdle
    /\ MaskIdle
    /\ UiIdle
    /\ cover \in Covers
    /\ secret_data \in Payloads
    /\ pc = "ready"
    /\ engine = "none"
    /\ threshold = 0
    /\ run = NoRun
    /\ stego = NoImage
    /\ ext = NoExt
    /\ cap = NoCap

\* The caller embeds with the LSB engine.
LSBEmbed ==
    /\ pc = "ready"
    /\ \E r \in {LSBEmbedCall(cover, secret_data)} :
           /\ run' = r
           /\ cover' = r.arg
           /\ stego' = r.ret
           /\ pc' = IF r.err = "none" THEN "embedded" ELSE "failed"
    /\ engine' = "lsb"
    /\ UNCHANGED <<secret_data, threshold, ext, cap,
                 metricVars, attackVars, maskVars, uiVars>>

\* The caller extracts with the LSB engine, from the stego image or from
\* the cover itself.
LSBExtractFrom(from) ==
    /\ \/ from = "stego" /\ pc = "embedded" /\ engine = "lsb"
       \/ from = "cover" /\ pc = "ready"
    /\ ext' = [from |-> from, by |-> "lsb", thr |-> 0,
               text |-> LSBExtract(IF from = "stego" THEN stego ELSE cover)]
    /\ pc' = "extracted"
    /\ UNCHANGED <<cover, secret_data, engine, threshold, run, stego, cap,
                 metricVars, attackVars, maskVars, uiVars>>

LSBExtractStep == \E from \in {"stego", "cover"} : LSBExtractFrom(from)

\* The caller embeds with the adaptive engine at threshold t.
AdaptiveEmbedAt(t) ==
    /\ pc = "ready"
    /\ \E r \in {AdaptiveEmbedCall(cover, secret_data, t)} :
           /\ run' = r
           /\ cover' = r.arg
           /\ stego' = r.ret
           /\ pc' = IF r.err = "none" THEN "embedded" ELSE "failed"
    /\ engine' = "adaptive"
    /\ threshold' = t
    /\ UNCHANGED <<secret_data, ext, cap,
                 metricVars, attackVars, maskVars, uiVars>>

AdaptiveEmbed == \E t \in Thresholds : AdaptiveEmbedAt(t)

\* The caller extracts with the adaptive engine: from the stego image at the
\* threshold it passed to embed or at the one embed ended with, or from the
\* cover at any threshold.
AdaptiveExtractFrom(from, t) ==
    /\ \/ from = "stego" /\ pc = "embedded" /\ engine = "adaptive"
          /\ t \in {threshold, run.used}
       \/ from = "cover" /\ pc = "ready" /\ t \in Thresholds
    /\ ext' = [from |-> from, by |-> "adaptive", thr |-> t,
               text |-> AdaptiveExtract(IF from = "stego" THEN stego ELSE cover, t)]
    /\ pc' = "extracted"
    /\ UNCHANGED <<cover, secret_data, engine, threshold, run, stego, cap,
                 metricVars, attackVars, maskVars, uiVars>>

AdaptiveExtractStep ==
    \E from \in {"stego", "cover"} :
        \E t \in Thresholds \cup {threshold, run.used} : AdaptiveExtractFrom(from, t)

\* The caller asks the LSB engine for the capacity of the cover.
LSBCapacity ==
    /\ pc \in {"ready", "failed"}
    /\ cap' = [by |-> "lsb", thr |-> 0, bytes |-> LSBGetEmbeddingCapacity(cover)]
    /\ pc' = "measured"
    /\ UNCHANGED <<cover, secret_data, engine, threshold, run, stego, ext,
                 metricVars, attackVars, maskVars, uiVars>>

Next ==
    \/ LSBEmbed
    \/ LSBExtractStep
    \/ LSBCapacity
    \/ AdaptiveEmbed
    \/ AdaptiveExtractStep

Spec == Init /\ [][Next]_vars

(***************************************************************************)
(* The metrics on their own: the caller holds two images and computes a    *)
(* metric of them.                                                         *)
(***************************************************************************)
MetricsInit ==
    /\ StegoIdle
    /\ AttackIdle
    /\ MaskIdle
    /\ UiIdle
    /\ m_in \in MetricInputs
    /\ m_out = NoMetric

Psnr ==
    /\ m_out.op = "none" /\ m_in.of = "images"
    /\ m_out' = CalculatePsnr(m_in.a, m_in.b)
    /\ UNCHANGED <<m_in, stegoVars, attackVars, maskVars, uiVars>>

Ssim ==
    /\ m_out.op = "none" /\ m_in.of \in {"images", "window_images"}
    /\ m_out' = CalculateSsim(m_in.a, m_in.b, WinSize)
    /\ UNCHANGED <<m_in, stegoVars, attackVars, maskVars, uiVars>>

Ber ==
    /\ m_out.op = "none" /\ m_in.of = "bits"
    /\ m_out' = CalculateBer(m_in.a, m_in.b)
    /\ UNCHANGED <<m_in, stegoVars, attackVars, maskVars, uiVars>>

BerText ==
    /\ m_out.op = "none" /\ m_in.of = "texts"
    /\ m_out' = CalculateBerText(m_in.a, m_in.b)
    /\ UNCHANGED <<m_in, stegoVars, attackVars, maskVars, uiVars>>

MetricsNext ==
    \/ Psnr
    \/ Ssim
    \/ Ber
    \/ BerText

SpecMetrics == MetricsInit /\ [][MetricsNext]_vars

(***************************************************************************)
(* The attack simulator on its own: the caller holds an image and makes    *)
(* one call, of an operator or of apply_attack.  jpeg_compression runs in  *)
(* steps (create the working file, write it, read it back, remove it);     *)
(* the codec may fail to write or to read.  The other operators touch      *)
(* nothing but their arguments and are one step each.                      *)
(***************************************************************************)
AttackShapes ==
    {<<h, w>> : h \in 1..MaxDim, w \in 1..MaxDim}
        \cup {<<h, w, 3>> : h \in 1..MaxDim, w \in 1..MaxDim}

AttackImages == {Texture(sh, 1, 0, 0) : sh \in AttackShapes}

Qualities == {-1, 0, 1, 75, 100, 101}

KernelSizes == {-2, -1, 0, 1, 2, 3}

Sigmas == {-1, 0, 1, 10}

CropRatios == {-10, 0, 25, 50, 90, 100, 150}

Means == {0, 5}

Draws == {0, 1}

AttackTypes == {"jpeg", "blur", "crop", "noise", "rotate", ""}

\* The parameter mappings tried with an attack type.
ParamDicts(attack_type) ==
    IF attack_type = "jpeg"
    THEN {EmptyDict} \cup {[quality |-> q] : q \in Qualities}
    ELSE IF attack_type = "blur"
    THEN {EmptyDict} \cup {[kernel_size |-> k] : k \in KernelSizes}
            \cup {[sigma |-> sg] : sg \in Sigmas}
            \cup {[kernel_size |-> k, sigma |-> sg] : k \in KernelSizes, sg \in Sigmas}
    ELSE IF attack_type = "crop"
    THEN {EmptyDict} \cup {[crop_ratio |-> r] : r \in CropRatios}
    ELSE IF attack_type = "noise"
    THEN {EmptyDict} \cup {[mean |-> m] : m \in Means}
            \cup {[sigma |-> sg] : sg \in Sigmas}
            \cup {[mean |-> m, sigma |-> sg] : m \in Means, sg \in Sigmas}
    ELSE {EmptyDict, [quality |-> 75]}

\* The path tempfile.NamedTemporaryFile picks: one that does not exist.
FreshPath == CHOOSE path \in 1..(created + 1) : path \notin DOMAIN files

AttackInit ==
    /\ StegoIdle
    /\ MetricsIdle
    /\ MaskIdle
    /\ UiIdle
    /\ a_image \in AttackImages
    /\ a_call = NoCall
    /\ a_pc = "idle"
    /\ a_ret = NoRet
    /\ files = EmptyDict
    /\ created = 0
    /\ a_prev = NoPrev
    /\ calls = NoCalls

\* The first step of jpeg_compression(a_image, c.quality): the parameter
\* check, then the creation of the working file.
JpegEnter(c) ==
    IF JpegQualityRejected(c.quality)
    THEN /\ a_ret' = Raised("InvalidParameterError", FALSE)
         /\ a_pc' = "done"
         /\ a_call' = [c EXCEPT !.path = 0]
         /\ UNCHANGED <<files, created>>
    ELSE /\ a_call' = [c EXCEPT !.path = FreshPath]
         /\ files' = (FreshPath :> "empty") @@ files
         /\ created' = created + 1
         /\ a_pc' = "jpeg_write"
         /\ a_ret' = NoRet

\* An operator that is one step.
Finish(c, r) ==
    /\ a_call' = c
    /\ a_ret' = r
    /\ a_pc' = "done"
    /\ UNCHANGED <<files, created>>

\* The step that carries out the call c.
Invoke(c) ==
    IF c.op = "jpeg" THEN JpegEnter(c)
    ELSE IF c.op = "blur" THEN Finish(c, GaussianBlur(a_image, c.kernel_size, c.sigma))
    ELSE IF c.op = "crop" THEN Finish(c, CropAttack(a_image, c.crop_ratio))
    ELSE IF c.op = "noise"
    THEN \E draw \in Draws : Finish(c, GaussianNoise(a_image, c.mean, c.sigma, draw))
    ELSE Finish(c, Raised("UnsupportedAttackError", FALSE))

Direct(op) == [NoCall EXCEPT !.via = "direct", !.kind = op, !.op = op]

JpegCompression ==
    /\ a_pc = "idle"
    /\ \E quality \in Qualities : Invoke([Direct("jpeg") EXCEPT !.quality = quality])
    /\ UNCHANGED <<a_image, a_prev, calls, stegoVars, metricVars, maskVars, uiVars>>

GaussianBlurCall ==
    /\ a_pc = "idle"
    /\ \E kernel_size \in KernelSizes, sigma \in Sigmas :
           Invoke([Direct("blur") EXCEPT !.kernel_size = kernel_size, !.sigma = sigma])
    /\ UNCHANGED <<a_image, a_prev, calls, stegoVars, metricVars, maskVars, uiVars>>

CropAttackCall ==
    /\ a_pc = "idle"
    /\ \E crop_ratio \in CropRatios :
           Invoke([Direct("crop") EXCEPT !.crop_ratio = crop_ratio])
    /\ UNCHANGED <<a_image, a_prev, calls, stegoVars, metricVars, maskVars, uiVars>>

GaussianNoiseCall ==
    /\ a_pc = "idle"
    /\ \E mean \in Means, sigma \in Sigmas :
           Invoke([Direct("noise") EXCEPT !.mean = mean, !.sigma = sigma])
    /\ UNCHANGED <<a_image, a_prev, calls, stegoVars, metricVars, maskVars, uiVars>>

ApplyAttack ==
    /\ a_pc = "idle"
    /\ \E attack_type \in AttackTypes, has_params \in BOOLEAN :
           \E given \in (IF has_params THEN ParamDicts(attack_type) ELSE {EmptyDict}) :
               Invoke(Dispatch(attack_type, has_params, given))
    /\ UNCHANGED <<a_image, a_prev, calls, stegoVars, metricVars, maskVars, uiVars>>

\* cv2.imwrite(temp_path, image, ...): the file is written, or the codec
\* raises and the finally clause runs.
JpegWrite ==
    /\ a_pc = "jpeg_write"
    /\ \/ /\ files' = [files EXCEPT ![a_call.path] = "jpeg"]
          /\ a_ret' = [a_ret EXCEPT !.used_image = TRUE]
          /\ a_pc' = "jpeg_read"
       \/ /\ a_ret' = Raised("LibraryError", TRUE)
          /\ a_pc' = "jpeg_finally"
          /\ UNCHANGED files
    /\ UNCHANGED <<a_image, a_prev, calls, a_call, created, stegoVars, metricVars, maskVars, uiVars>>

\* cv2.imread(temp_path) and lines 49-52: the decoded image, resized when
\* its shape differs; or None, whose .shape raises.
JpegRead ==
    /\ a_pc = "jpeg_read"
    /\ \/ a_ret' = JpegResult(a_image, a_call.quality)
       \/ a_ret' = Raised("AttributeError", TRUE)
    /\ a_pc' = "jpeg_finally"
    /\ UNCHANGED <<a_image, a_prev, calls, a_call, files, created, stegoVars, metricVars, maskVars, uiVars>>

\* The finally clause: the working file is removed if it exists.
JpegFinally ==
    /\ a_pc = "jpeg_finally"
    /\ files' = RemoveIfExists(files, a_call.path)
    /\ a_pc' = "done"
    /\ UNCHANGED <<a_image, a_prev, calls, a_call, a_ret, created, stegoVars, metricVars, maskVars, uiVars>>

\* The caller makes the call it has just made once more: the same
\* operation, the same image, the same parameters.
Repeat ==
    /\ a_pc = "done" /\ a_prev.n = 0
    /\ a_prev' = [n |-> 1, ret |-> a_ret]
    /\ Invoke([a_call EXCEPT !.path = 0])
    /\ UNCHANGED <<a_image, calls, stegoVars, metricVars, maskVars, uiVars>>

AttackNext ==
    \/ Repeat
    \/ JpegCompression
    \/ GaussianBlurCall
    \/ CropAttackCall
    \/ GaussianNoiseCall
    \/ ApplyAttack
    \/ JpegWrite
    \/ JpegRead
    \/ JpegFinally

SpecAttack == AttackInit /\ [][AttackNext]_vars

(***************************************************************************)
(* Two threads call jpeg_compression at the same time, each on its own     *)
(* image.  The calls share nothing but the directory of working files; a   *)
(* step of a call is one of its library calls: the creation of the working *)
(* file (after the parameter check), cv2.imwrite, cv2.imread with the      *)
(* lines up to the return, and the finally clause.  A working file holds   *)
(* what was last written to it: [image, quality], NoImage while empty.     *)
(* calls[t] is the call of thread t: its arguments, its position pc, the   *)
(* path of its working file, what it returned (ret), the image its result  *)
(* was decoded from (of), and whether the other call was under way when it *)
(* created its file (met).                                                 *)
(***************************************************************************)
Threads == {1, 2}

Paths == 1..MaxPaths

PairImages == {Texture(<<1, 2>>, 1, 0, 0), Texture(<<2, 1, 3>>, 1, 0, 0)}

PairQualities == {0, 50, 75}

EmptyFile == [image |-> NoImage, quality |-> 0]

Busy(c) == c.pc \in {"write", "read", "finally"}

\* A choice of name that is always the same one.
TempPaths_Fixed(fs) == {1}

\* The names tempfile.NamedTemporaryFile may pick: it creates the file
\* exclusively, so never one that exists.
TempPaths(fs) == Paths \ DOMAIN fs

\* Lines 46-52 on a file that holds content.
JpegReadBack(image, content) ==
    LET compressed == JpegDecodedShape(content.image)
    IN  IF compressed # image.shape
        THEN Returned(<<Height(image), Width(image), compressed[3]>>, "jpeg",
                      content.quality, 1, 0)
        ELSE Returned(compressed, "jpeg", content.quality, 0, 0)

PairInit ==
    /\ StegoIdle
    /\ MetricsIdle
    /\ MaskIdle
    /\ UiIdle
    /\ a_image = NoImage
    /\ a_call = NoCall
    /\ a_pc = "off"
    /\ a_ret = NoRet
    /\ a_prev = NoPrev
    /\ files = EmptyDict
    /\ created = 0
    /\ calls \in [Threads -> [pc : {"start"}, image : PairImages,
                               quality : PairQualities, path : {0},
                               ret : {NoRet}, of : {NoImage}, met : {FALSE}]]

PairFrame == UNCHANGED <<a_image, a_call, a_pc, a_ret, a_prev, stegoVars, metricVars, maskVars, uiVars>>

\* Thread t enters jpeg_compression: the quality check and the creation of
\* the working file.
PairEnter ==
    \E t \in Threads :
        /\ calls[t].pc = "start"
        /\ IF JpegQualityRejected(calls[t].quality)
           THEN /\ calls' = [calls EXCEPT ![t].pc = "done",
                                          ![t].ret = Raised("InvalidParameterError", FALSE)]
                /\ UNCHANGED <<files, created>>
           ELSE \E path \in TempPaths(files) :
                    /\ calls' = [calls EXCEPT
                                    ![t].pc = "write", ![t].path = path,
                                    ![t].met = \E o \in Threads \ {t} : Busy(calls[o])]
                    /\ files' = (path :> EmptyFile) @@ files
                    /\ created' = created + 1
        /\ PairFrame

\* cv2.imwrite(temp_path, image, ...) of thread t.
PairWrite ==
    \E t \in Threads :
        /\ calls[t].pc = "write"
        /\ \/ /\ files' = (calls[t].path :> [image |-> calls[t].image,
                                               quality |-> calls[t].quality]) @@ files
              /\ calls' = [calls EXCEPT ![t].pc = "read", ![t].ret.used_image = TRUE]
           \/ /\ calls' = [calls EXCEPT ![t].pc = "finally",
                                         ![t].ret = Raised("LibraryError", TRUE)]
              /\ UNCHANGED files
        /\ UNCHANGED created
        /\ PairFrame

\* cv2.imread(temp_path) of thread t and lines 49-52: what the file at its
\* path holds, or None (no such file, an empty file, a codec failure).
PairRead ==
    \E t \in Threads :
        /\ calls[t].pc = "read"
        /\ \/ /\ calls[t].path \in DOMAIN files
              /\ files[calls[t].path] # EmptyFile
              /\ calls' = [calls EXCEPT
                              ![t].pc = "finally",
                              ![t].ret = JpegReadBack(calls[t].image, files[calls[t].path]),
                              ![t].of = files[calls[t].path].image]
           \/ calls' = [calls EXCEPT ![t].pc = "finally",
                                      ![t].ret = Raised("AttributeError", TRUE)]
        /\ UNCHANGED <<files, created>>
        /\ PairFrame

\* The finally clause of thread t.
PairFinally ==
    \E t \in Threads :
        /\ calls[t].pc = "finally"
        /\ files' = RemoveIfExists(files, calls[t].path)
        /\ calls' = [calls EXCEPT ![t].pc = "done"]
        /\ UNCHANGED created
        /\ PairFrame

PairNext ==
    \/ PairEnter
    \/ PairWrite
    \/ PairRead
    \/ PairFinally

SpecJpegPair == PairInit /\ [][PairNext]_vars

(***************************************************************************)
(* All the core operations: the caller uses one of the components, the     *)
(* engines (on the covers of a single row), the attack simulator or the    *)
(* metrics, and makes any of its calls; the adaptive engine's capacity is  *)
(* among the calls.                                                        *)
(***************************************************************************)
\* The caller asks the adaptive engine for the capacity of the cover.
AdaptiveCapacity ==
    /\ pc = "ready"
    /\ \E t \in Thresholds :
           cap' = [by |-> "adaptive", thr |-> t,
                   bytes |-> AdaptiveGetEmbeddingCapacity(cover, t)]
    /\ pc' = "measured"
    /\ UNCHANGED <<cover, secret_data, engine, threshold, run, stego, ext,
                 metricVars, attackVars, maskVars, uiVars>>

CoreInit ==
    \/ Init /\ Height(cover) = 1
    \/ AttackInit
    \/ MetricsInit

CoreNext ==
    \/ LSBEmbed
    \/ LSBExtractStep
    \/ LSBCapacity
    \/ AdaptiveEmbed
    \/ AdaptiveExtractStep
    \/ AdaptiveCapacity
    \/ Repeat
    \/ JpegCompression
    \/ GaussianBlurCall
    \/ CropAttackCall
    \/ GaussianNoiseCall
    \/ ApplyAttack
    \/ JpegWrite
    \/ JpegRead
    \/ JpegFinally
    \/ Psnr
    \/ Ssim
    \/ Ber
    \/ BerText

SpecCore == CoreInit /\ [][CoreNext]_vars

(***************************************************************************)
(* Properties of the engines.                                              *)
(***************************************************************************)
\* Every character of s is a single non-zero byte.
OneByteNoZero(s) == \A i \in 1..Len(s) : s[i] \in 1..255

\* The steps of the LSB engine's embed.
IsLSBEmbedStep == pc = "ready" /\ pc' \in {"embedded", "failed"} /\ engine' = "lsb"

\* C1: LSB round trip.  Whenever the LSB engine has embedded a payload of
\* non-zero single-byte characters and the stego image is extracted with
\* the LSB engine, the text returned is the payload, for grayscale and for
\* colour covers alike.
C1_LSBRoundTrip ==
    (pc = "extracted" /\ ext.by = "lsb" /\ ext.from = "stego"
        /\ OneByteNoZero(secret_data))
    => ext.text = secret_data

\* C2: adaptive round trip.  Whenever the adaptive engine has embedded a
\* payload of non-zero single-byte characters at threshold t and the stego
\* image is extracted with the adaptive engine at the same t the caller
\* passed to embed, the text returned is the payload.
C2_AdaptiveRoundTrip ==
    (pc = "extracted" /\ ext.by = "adaptive" /\ ext.from = "stego"
        /\ ext.thr = threshold /\ OneByteNoZero(secret_data))
    => ext.text = secret_data

\* C3: an LSB embed of a payload whose 8*(len+1) bits exceed the slot count
\* of the cover (H*W, or H*W*3 for colour) raises the capacity error, having
\* stored no sample: the cover is unchanged and no stego image is returned.
C3_CapacityErrorBeforeWrite ==
    [][(IsLSBEmbedStep /\ 8 * (Len(secret_data) + 1) > SlotCount(cover.shape))
        => /\ pc' = "failed"
           /\ run'.err = "CapacityError"
           /\ run'.writes = 0
           /\ run'.ret = NoImage
           /\ stego' = NoImage
           /\ cover' = cover]_vars

C3_Witness ==
    /\ pc = "failed" /\ engine = "lsb" /\ run.err = "CapacityError"
    /\ 8 * (Len(secret_data) + 1) > SlotCount(cover.shape)
    /\ NDim(cover) = 3 /\ secret_data # <<>>

\* C4: the LSB capacity is (H*W*3) div 8 for a colour image and (H*W) div 8
\* for a grayscale one, and an LSB embed of a payload of more bytes than
\* that raises the capacity error.
C4_LSBCapacity ==
    /\ cap.by = "lsb"
        => cap.bytes = (IF NDim(cover) = 3
                        THEN (Height(cover) * Width(cover) * 3) \div 8
                        ELSE (Height(cover) * Width(cover)) \div 8)
    /\ (engine = "lsb" /\ Len(secret_data) > LSBGetEmbeddingCapacity(cover))
        => (run.err = "CapacityError" /\ stego = NoImage)

C4_Witness ==
    /\ cap.by = "lsb" /\ engine = "lsb" /\ run.err = "CapacityError"
    /\ NDim(cover) = 2 /\ cap.bytes = 1 /\ Len(secret_data) = 2

\* C5: an adaptive embed at a requested threshold t >= 0 either succeeds
\* with the mask of a threshold t' with 0 <= t' <= t or raises the capacity
\* error, and it raises exactly when the mask at threshold 0 offers fewer
\* slots than the encoded payload has bits.
C5_RelaxationOutcome ==
    (engine = "adaptive" /\ pc \in {"embedded", "failed"})
    => LET slots0 == AvailableCapacity(
                         cover, CreateEmbeddingMask(ComputeSobelGradient(cover), 0))
       IN  /\ run.err \in {"none", "CapacityError"}
           /\ run.err = "CapacityError" <=> slots0 < Len(BinaryData(secret_data))
           /\ run.err = "none" => (0 <= run.used /\ run.used <= threshold)

\* Bit k (from 0) of the encoding of a payload of bytes: the bytes most
\* significant bit first, then eight 0 bits.
EncodedBit(s, k) ==
    IF k < 8 * Len(s) THEN (s[(k \div 8) + 1] \div (2 ^ (7 - (k % 8)))) % 2 ELSE 0

AllBytes(s) == \A i \in 1..Len(s) : s[i] \in 0..255

LSBEmbedded == engine = "lsb" /\ run.err = "none" /\ pc \in {"embedded", "extracted"}

\* C19: an LSB embed of a payload of bytes puts bit k of the encoding in the
\* least-significant bit of slot k, the slots in raster order with the three
\* channels of a colour pixel consecutive; on a grayscale cover of 16 or
\* more pixels the payload "A" gives the LSBs 01000001 00000000 and extract
\* returns "A".
C19_BitPlacement ==
    (LSBEmbedded /\ AllBytes(secret_data))
    => /\ \A k \in 0..(8 * (Len(secret_data) + 1) - 1) :
              stego.px[k + 1] % 2 = EncodedBit(secret_data, k)
       /\ (NDim(cover) = 2 /\ secret_data = <<65>>)
           => /\ [k \in 1..16 |-> stego.px[k] % 2]
                    = <<0, 1, 0, 0, 0, 0, 0, 1, 0, 0, 0, 0, 0, 0, 0, 0>>
              /\ (pc = "extracted" /\ ext.by = "lsb" /\ ext.from = "stego")
                  => ext.text = <<65>>

C19_Witness ==
    /\ LSBEmbedded /\ cover.shape = <<2, 8>> /\ secret_data = <<65>>
    /\ cover.px[2] = 0 /\ stego.px[2] = 1
    /\ pc = "extracted" /\ ext.by = "lsb" /\ ext.from = "stego"
    /\ ext.text = <<65>>

\* C20: a successful LSB embed of N encoded bits returns an image of the
\* cover's shape in which every slot from N on is the cover's and every slot
\* before N keeps its upper seven bits, so that no sample moves by more
\* than 1 or leaves 0..255.
C20_EmbedFrame ==
    LSBEmbedded
    => LET N == Len(BinaryData(secret_data))
       IN  /\ AllBytes(secret_data) => N = 8 * (Len(secret_data) + 1)
           /\ stego.shape = cover.shape
           /\ Len(stego.px) = Len(cover.px)
           /\ \A k \in 1..Len(cover.px) :
                  /\ k > N => stego.px[k] = cover.px[k]
                  /\ stego.px[k] \div 2 = cover.px[k] \div 2
                  /\ stego.px[k] - cover.px[k] \in {-1, 0, 1}
                  /\ stego.px[k] \in 0..255

C20_Witness ==
    /\ LSBEmbedded /\ NDim(cover) = 3 /\ secret_data = <<255>>
    /\ cover.px[1] = 2 /\ stego.px[1] = 3
    /\ cover.px[18] = 3 /\ stego.px[18] = 3

\* C14: no core operation changes an image it is given: over every call of
\* the engines (embed, extract, capacity), of the attack operators and of
\* the metrics, returning or raising, the caller's cover, the stego image
\* given to an extract, the image given to an attack and the arguments of a
\* metric keep every sample, and an image returned is a buffer of its own.
C14_InputsUnchanged ==
    [][/\ cover' = cover
       /\ pc' \in {"extracted", "measured"} => stego' = stego
       /\ a_image' = a_image
       /\ m_in' = m_in
       /\ (pc = "ready" /\ pc' = "embedded")
           => (run'.fresh /\ run'.arg = cover /\ stego' = run'.ret)
       /\ (a_pc' = "done" /\ a_ret'.err = "none") => a_ret'.fresh]_vars

\* An adaptive embed that stored into its copy: the image returned differs
\* from the cover, which is as it was.
C14_Witness ==
    /\ pc = "embedded" /\ engine = "adaptive" /\ run.err = "none"
    /\ run.writes > 0 /\ stego # cover /\ run.arg = cover /\ run.fresh

(***************************************************************************)
(* Properties of the attack simulator.                                     *)
(***************************************************************************)
\* The documented domain of the parameters of a call.
InDomain(c) ==
    /\ c.op = "jpeg" => (1 <= c.quality /\ c.quality <= 100)
    /\ c.op = "blur" => (c.kernel_size >= 1 /\ c.sigma > 0)
    /\ c.op = "crop" => (0 < c.crop_ratio /\ c.crop_ratio < 100)
    /\ c.op = "noise" => c.sigma >= 0

\* The codec failed to write or to read the working file.
CodecFailed == a_call.op = "jpeg" /\ a_ret.err \in {"LibraryError", "AttributeError"}

IsOperator(c) == c.op \in {"jpeg", "blur", "crop", "noise"}

\* C6: every attack operator, given an image of shape (H,W) or (H,W,3) and
\* parameters in their domain, returns an image of the shape of its input,
\* very small images included.
C6_AttackShapePreserved ==
    (a_pc = "done" /\ IsOperator(a_call) /\ InDomain(a_call) /\ ~CodecFailed)
    => (a_ret.err = "none" /\ a_ret.shape = a_image.shape)

\* C7: jpeg_compression rejects a quality below 1 or above 100 and
\* crop_attack a ratio <= 0 or >= 1 with the parameter error, before a
\* working file is created and before the image is read; neither rejects a
\* quality in 1..100 or a ratio strictly between 0 and 1.
C7_ParameterValidation ==
    /\ (a_call.op = "jpeg" /\ a_pc # "idle")
        => IF a_call.quality < 1 \/ a_call.quality > 100
           THEN /\ a_pc = "done"
                /\ a_ret.err = "InvalidParameterError"
                /\ ~a_ret.used_image
                /\ created = 0
                /\ DOMAIN files = {}
           ELSE a_ret.err # "InvalidParameterError"
    /\ (a_call.op = "crop" /\ a_pc = "done")
        => IF a_call.crop_ratio <= 0 \/ a_call.crop_ratio >= 100
           THEN /\ a_ret.err = "InvalidParameterError"
                /\ ~a_ret.used_image
                /\ created = 0
           ELSE a_ret.err # "InvalidParameterError"

C7_Witness ==
    /\ a_pc = "done" /\ a_call.via = "direct" /\ a_call.op = "jpeg"
    /\ a_call.quality = 0 /\ a_ret.err = "InvalidParameterError"

\* C8: a call with a parameter outside its documented domain ends with the
\* parameter error: gaussian_blur with a kernel size below 1 or a sigma
\* <= 0 and gaussian_noise with a sigma below 0 among them.
C8_InvalidParameterSurfaced ==
    (a_pc = "done" /\ IsOperator(a_call) /\ ~InDomain(a_call))
    => a_ret.err = "InvalidParameterError"

\* C9: apply_attack calls, for 'jpeg', 'blur', 'crop' and 'noise', the
\* operator of that name with the parameters supplied and the defaults
\* (quality 75; kernel_size 3, sigma 1.0; crop_ratio 0.9; mean 0, sigma
\* 10.0) for those omitted, also when params is absent, and returns what the
\* operator returns; for any other kind it raises the unsupported-attack
\* error and calls no operator.
C9_ApplyAttackDispatch ==
    a_call.via = "apply"
    => LET c == a_call
           params == IF c.has_params THEN c.params ELSE EmptyDict
           Supplied(key, default) ==
               IF key \in DOMAIN params THEN params[key] ELSE default
       IN  /\ c.kind = "jpeg"
               => /\ c.op = "jpeg" /\ c.quality = Supplied("quality", 75)
                  /\ (a_pc = "done" /\ a_ret.err = "none")
                      => a_ret = JpegResult(a_image, Supplied("quality", 75))
           /\ c.kind = "blur"
               => /\ c.op = "blur" /\ a_pc = "done"
                  /\ a_ret = GaussianBlur(a_image, Supplied("kernel_size", 3),
                                          Supplied("sigma", 1))
           /\ c.kind = "crop"
               => /\ c.op = "crop" /\ a_pc = "done"
                  /\ a_ret = CropAttack(a_image, Supplied("crop_ratio", 90))
           /\ c.kind = "noise"
               => /\ c.op = "noise" /\ a_pc = "done"
                  /\ \E draw \in Draws :
                         a_ret = GaussianNoise(a_image, Supplied("mean", 0),
                                               Supplied("sigma", 10), draw)
           /\ c.kind \notin {"jpeg", "blur", "crop", "noise"}
               => /\ c.op = "none" /\ a_pc = "done"
                  /\ a_ret.err = "UnsupportedAttackError"
                  /\ ~a_ret.used_image
                  /\ created = 0

\* C15: the working file of jpeg_compression does not exist once the call
\* has ended, whether it returned, rejected the quality, failed to write the
\* file or failed to read it back.
C15_WorkingFileRemoved ==
    (a_call.op = "jpeg" /\ a_pc = "done")
    => /\ a_call.path \notin DOMAIN files
       /\ DOMAIN files = {}
       /\ a_ret.err \in {"none", "InvalidParameterError", "LibraryError",
                          "AttributeError"}

\* The call that could not read its file back.
C15_Witness ==
    /\ a_call.op = "jpeg" /\ a_pc = "done" /\ a_ret.err = "AttributeError"
    /\ created = 1 /\ a_call.path = 1 /\ DOMAIN files = {}

\* C16: two calls of an attack operator with the same image and the same
\* parameters return the same image, gaussian_noise included.
C16_Deterministic ==
    (a_pc = "done" /\ a_prev.n = 1 /\ IsOperator(a_call)
        /\ ~CodecFailed
        /\ ~(a_call.op = "jpeg" /\ a_prev.ret.err \in {"LibraryError", "AttributeError"}))
    => a_ret = a_prev.ret

\* C17: when two jpeg_compression calls run at once on their own images,
\* under every interleaving of their steps the two working files are
\* different files, each call finds at its path what it wrote itself and
\* its file is not removed by the other, each returns the result for its
\* own image, and no working file is left when both have ended.
C17_Reentrant ==
    /\ \A t \in Threads :
           LET c == calls[t]
           IN  /\ Busy(c) => c.path \in DOMAIN files
               /\ \A o \in Threads \ {t} :
                      (Busy(c) /\ Busy(calls[o])) => c.path # calls[o].path
               /\ c.pc = "read"
                   => files[c.path] = [image |-> c.image, quality |-> c.quality]
               /\ (c.pc \in {"finally", "done"} /\ c.ret.err = "none")
                   => /\ c.of = c.image
                      /\ c.ret = JpegResult(c.image, c.quality)
    /\ DOMAIN files = {calls[t].path : t \in {u \in Threads : Busy(calls[u])}}
    /\ (\A t \in Threads : calls[t].pc = "done") => DOMAIN files = {}

\* Both calls returned, the second having started while the first was
\* under way.
C17_Witness ==
    /\ \A t \in Threads : calls[t].pc = "done" /\ calls[t].ret.err = "none"
    /\ calls[1].image # calls[2].image
    /\ calls[2].met
    /\ created = 2 /\ DOMAIN files = {}

C9_Witness ==
    /\ a_call.via = "apply" /\ a_call.kind = "jpeg" /\ ~a_call.has_params
    /\ a_pc = "done" /\ a_ret.err = "none" /\ a_ret.p1 = 75
    /\ a_ret.shape = a_image.shape

(***************************************************************************)
(* Properties of the metrics.                                              *)
(***************************************************************************)
\* C10: on two 8-bit images of one shape, calculate_psnr returns +infinity
\* exactly when the images are equal sample by sample, a finite value when
\* some sample differs; so psnr(img, img) is +infinity.
C10_PsnrInfinity ==
    (m_out.op = "psnr" /\ m_in.a.shape = m_in.b.shape)
    => /\ m_out.err = "none"
       /\ m_out.kind = "inf" <=> m_in.a = m_in.b
       /\ m_out.kind = "finite" <=> m_in.a # m_in.b
       /\ m_out.kind = "finite" => (m_out.sse > 0 /\ m_out.n > 0)

C10_Witness ==
    /\ m_out.op = "psnr" /\ m_out.kind = "inf"
    /\ m_in.a = m_in.b /\ m_in.a.px = <<255, 1>>

\* The bits of x, each flipped.
Complement(x) == [i \in 1..Len(x) |-> 1 - x[i]]

\* C11: for two bit sequences of equal length, the empty ones included,
\* calculate_ber returns the fraction of the positions where they differ, a
\* number between 0 and 1: 0 for a sequence and itself, 1 for a sequence
\* and its complement.
C11_BerFraction ==
    (m_out.op = "ber" /\ Len(m_in.a) = Len(m_in.b))
    => /\ m_out.err = "none"
       /\ m_out.kind = "ratio"
       /\ m_out.den = Len(m_in.a)
       /\ m_out.num = Cardinality({i \in 1..Len(m_in.a) : m_in.a[i] # m_in.b[i]})
       /\ 0 <= m_out.num /\ m_out.num <= m_out.den
       /\ m_in.a = m_in.b => m_out.num = 0
       /\ (Len(m_in.a) > 0 /\ m_in.b = Complement(m_in.a)) => m_out.num = m_out.den

\* C12: calculate_ber_text always returns a number between 0 and 1: 1 when
\* a text is absent or empty, and otherwise the mismatches among the first
\* min(len) positions plus what original has beyond extracted, over
\* len(original); what extracted has beyond original is not counted.
C12_BerText ==
    m_out.op = "ber_text"
    => LET o == m_in.a
           e == m_in.b
       IN  /\ m_out.err = "none" /\ m_out.kind = "ratio"
           /\ m_out.den > 0
           /\ 0 <= m_out.num /\ m_out.num <= m_out.den
           /\ (o.absent \/ e.absent \/ o.s = <<>> \/ e.s = <<>>)
               => m_out.num = m_out.den
           /\ (~o.absent /\ ~e.absent /\ o.s # <<>> /\ e.s # <<>>)
               => /\ m_out.den = Len(o.s)
                  /\ m_out.num =
                        Cardinality({i \in 1..Len(o.s) :
                                        i > Len(e.s) \/ o.s[i] # e.s[i]})

\* original 'A', extracted 'AB': what extracted has beyond original is not
\* counted.
C12_Witness ==
    /\ m_out.op = "ber_text"
    /\ m_in.a = [absent |-> FALSE, s |-> <<65>>]
    /\ m_in.b = [absent |-> FALSE, s |-> <<65, 66>>]
    /\ m_out.num = 0 /\ m_out.den = 1

\* C13: calculate_psnr and calculate_ssim raise, and return no value, when
\* the shapes of their two images differ, and calculate_ber when the lengths
\* of its two sequences differ.
C13_IncompatibleInputs ==
    /\ (m_out.op \in {"psnr", "ssim"} /\ m_in.a.shape # m_in.b.shape)
        => (m_out.err = "ShapeMismatchError" /\ m_out.kind = "none")
    /\ (m_out.op = "ber" /\ Len(m_in.a) # Len(m_in.b))
        => (m_out.err = "LengthMismatchError" /\ m_out.kind = "none")

\* Two images of as many samples and different shapes, given to ssim.
C13_Witness ==
    /\ m_out.op = "ssim" /\ m_out.err = "ShapeMismatchError"
    /\ m_in.a.shape = <<1, WinSize>> /\ m_in.b.shape = <<WinSize, 1>>

\* C18: calculate_ssim of an image and itself, with the default window, is
\* 1: every entry of the SSIM map has its numerator equal to its
\* denominator.
C18_SsimIdentity ==
    (m_out.op = "ssim" /\ m_in.a = m_in.b)
    => (m_out.err = "none" /\ m_out.kind = "one")

(***************************************************************************)
(* What an extract call scanned.  The slots of an image are its samples in *)
(* traversal order (row-major, the three channels of a colour pixel in     *)
(* turn); the LSB engine scans all of them, the adaptive engine those of   *)
(* the pixels its mask selects.                                            *)
(***************************************************************************)
PixelOfSlot(image, k) == IF NDim(image) = 3 THEN ((k - 1) \div 3) + 1 ELSE k

MaskedSlots(image, mask) ==
    LET Selected(k) == mask[PixelOfSlot(image, k)] = 1
    IN  SelectSeq([k \in 1..Len(image.px) |-> k], Selected)

SlotLSBs(image, slots) == [i \in 1..Len(slots) |-> image.px[slots[i]] % 2]

ExtractSource == IF ext.from = "stego" THEN stego ELSE cover

ExtractMask ==
    IF ext.by = "lsb"
    THEN [p \in 1..(Height(ExtractSource) * Width(ExtractSource)) |-> 1]
    ELSE CreateEmbeddingMask(ComputeSobelGradient(ExtractSource), ext.thr)

ScannedBits ==
    CHOOSE bits \in {SlotLSBs(ExtractSource, MaskedSlots(ExtractSource, mask)) :
                        mask \in {ExtractMask}} : TRUE

\* The g-th consecutive 8-bit group of bits.
Group(bits, g) == SubSeq(bits, 8 * g - 7, 8 * g)

\* The index of the first all-zero group, 0 when there is none.
FirstZeroGroup(bits) ==
    LET zero == {g \in 1..(Len(bits) \div 8) : Group(bits, g) = [i \in 1..8 |-> 0]}
    IN  IF zero = {} THEN 0 ELSE CHOOSE g \in zero : \A h \in zero : g <= h

GroupBytes(bits, n) ==
    [g \in 1..n |-> LET b == Group(bits, g)
                    IN  128 * b[1] + 64 * b[2] + 32 * b[3] + 16 * b[4]
                            + 8 * b[5] + 4 * b[6] + 2 * b[7] + b[8]]

\* C21: when the LSBs of the scanned slots, cut into consecutive 8-bit
\* groups, hold an all-zero group, extract (of either engine, on a grayscale
\* or a colour image) returns the bytes of the groups before the first such
\* group.
C21_TerminatorAtEveryGroup ==
    pc = "extracted"
    => \A bits \in {ScannedBits} :
           FirstZeroGroup(bits) > 0
           => ext.text = GroupBytes(bits, FirstZeroGroup(bits) - 1)

\* The test extract makes after the bits of each scanned pixel: channels
\* bits are appended at a time, and the terminator is looked for when the
\* count is a multiple of 8.
TerminatorSeen(bits, channels) ==
    \E n \in 8..Len(bits) :
        /\ n % channels = 0
        /\ n % 8 = 0
        /\ SubSeq(bits, n - 7, n) = [i \in 1..8 |-> 0]

\* C22: when no test of the scan finds a terminator, extract (of either
\* engine) returns one character for each complete 8-bit group of all the
\* bits scanned, in order: as many as the slots divided by 8, rounded down;
\* the bits after the last complete group are dropped, and no slot gives the
\* empty string.
C22_LenientExtraction ==
    pc = "extracted"
    => \A bits \in {ScannedBits} :
           ~TerminatorSeen(bits, IF NDim(ExtractSource) = 3 THEN 3 ELSE 1)
           => ext.text = GroupBytes(bits, Len(bits) \div 8)

\* The LSB engine reads the 21 slots of a 1x7 colour cover of odd samples:
\* two characters of eight ones, and five bits dropped.
C22_Witness ==
    /\ pc = "extracted" /\ ext.by = "lsb"
    /\ cover.shape = <<1, 7, 3>>
    /\ \A k \in 1..21 : cover.px[k] = 1
    /\ ext.text = <<255, 255>>

\* C23: the bit sequence embed builds from a payload, whatever its
\* characters, has 8 bits for each character and 8 for the terminator; a
\* successful embed stores every bit of it once, so it makes
\* 8 * (len(payload) + 1) stores.
C23_EncodedLength ==
    pc = "embedded" => run.writes = 8 * (Len(secret_data) + 1)

\* C24: an adaptive embed asked for threshold t >= 0 ends its relaxation
\* loop after at most ceil(t / 5) steps, each lowering the threshold by 5
\* from t, and the threshold of every mask it computes, down to the last,
\* is at least 0.
C24_RelaxationBounded ==
    (engine = "adaptive" /\ pc \in {"embedded", "failed"})
    => /\ run.used = threshold - ThresholdStep * run.steps
       /\ run.steps <= (threshold + ThresholdStep - 1) \div ThresholdStep
       /\ run.used >= 0

\* The mask a successful adaptive embed ended with: that of the cover's
\* gradient at the threshold the relaxation loop stopped at.
FinalMask == CreateEmbeddingMask(ComputeSobelGradient(cover), run.used)

\* C25: after a successful adaptive embed the stego image has the shape of
\* the cover; the slots of the pixels the final mask selects, in traversal
\* order, hold the encoded bits in their LSBs, one after the other from the
\* first, with their upper seven bits kept; the selected slots after the
\* last bit, and every slot of a pixel the mask does not select, are as in
\* the cover.
C25_AdaptiveEmbedFrame ==
    (engine = "adaptive" /\ pc = "embedded")
    => \A mask \in {FinalMask} :
           LET slots == MaskedSlots(cover, mask)
               bits == BinaryData(secret_data)
           IN  /\ stego.shape = cover.shape
               /\ Len(stego.px) = Len(cover.px)
               /\ Len(bits) <= Len(slots)
               /\ \A i \in 1..Len(slots) :
                      stego.px[slots[i]] =
                          IF i <= Len(bits)
                          THEN 2 * (cover.px[slots[i]] \div 2) + bits[i]
                          ELSE cover.px[slots[i]]
               /\ \A k \in 1..Len(cover.px) :
                      mask[PixelOfSlot(cover, k)] = 0 => stego.px[k] = cover.px[k]

\* 'A' embedded in a colour cover whose final mask leaves pixels out and
\* selects more slots than the 16 bits need, some sample changing.
C25_Witness ==
    /\ engine = "adaptive" /\ pc = "embedded"
    /\ NDim(cover) = 3
    /\ secret_data = <<65>>
    /\ stego.px # cover.px
    /\ \E mask \in {FinalMask} :
           /\ \E p \in 1..Len(mask) : mask[p] = 0
           /\ Len(MaskedSlots(cover, mask)) > 16

(***************************************************************************)
(* create_embedding_mask on its own.  The gradient is a uint8 plane, here  *)
(* a row of up to MaxPix pixels whose values are at, next to and between   *)
(* the ends of the range; the threshold is any integer, below 0 and above  *)
(* 255 included.  The caller computes the mask at its threshold and then,  *)
(* as the relaxation loop of embed does (sobel_adaptive.py 93), the mask   *)
(* of the same gradient at a threshold no higher.                          *)
(***************************************************************************)
Gradients == UNION {[1..n -> {0, 1, 5, 254, 255}] : n \in 1..MaxPix}

MaskThresholds == {-5, -1, 0, 1, 4, 254, 255, 260}

MaskInit ==
    /\ StegoIdle
    /\ MetricsIdle
    /\ AttackIdle
    /\ UiIdle
    /\ mask_in \in [gradient : Gradients, t : MaskThresholds]
    /\ mask_out = <<>>

CreateMask ==
    /\ mask_out = <<>>
    /\ mask_out' = <<[t |-> mask_in.t,
                      mask |-> CreateEmbeddingMask(mask_in.gradient, mask_in.t)]>>
    /\ UNCHANGED <<mask_in, stegoVars, metricVars, attackVars, uiVars>>

RelaxMask ==
    /\ Len(mask_out) = 1
    /\ \E new_threshold \in MaskThresholds :
           /\ new_threshold <= mask_out[1].t
           /\ mask_out' = Append(mask_out,
                  [t |-> new_threshold,
                   mask |-> CreateEmbeddingMask(mask_in.gradient, new_threshold)])
    /\ UNCHANGED <<mask_in, stegoVars, metricVars, attackVars, uiVars>>

MaskNext ==
    \/ CreateMask
    \/ RelaxMask

SpecMask == MaskInit /\ [][MaskNext]_vars

(***************************************************************************)
(* The main window (src/ui/main_window.py).  Each handler is one step, the *)
(* engine or attack call it makes included.  A handler that returns early  *)
(* after a warning ends "warned", one whose try block raises ends         *)
(* "failed" (the except clause reports and returns), the others "ok".     *)
(* The user may load a cover, type into the secret text box, switch the    *)
(* method and click embed, extract and apply-attack in any order: the      *)
(* handlers test the attributes themselves.  The samples of an attacked    *)
(* image are not modelled, so the text extract reads from one is any of    *)
(* UiExtracted, or the extraction raises.  The user clicks embed on the    *)
(* texts of UiTexts only, typed or read back by an extraction.             *)
(***************************************************************************)
\* The images the user loads: one that holds a character and one too small
\* for any payload.
UiCovers == {Texture(<<2, 8>>, 1, 0, 0), Texture(<<1, 7>>, 1, 0, 0)}

\* What the user types into the secret text box.
UiTexts == {<<>>, <<65>>, <<66>>}

\* What extract may read from an attacked image.
UiExtracted == {<<>>, <<65>>}

\* The values of the attack slider tried with each attack type.
UiAttackParams(attack_type) ==
    IF attack_type = "jpeg" THEN {0, 75}
    ELSE IF attack_type = "blur" THEN {3}
    ELSE IF attack_type = "crop" THEN {50}
    ELSE {10}

Done(w, handler, outcome) == [w EXCEPT !.handler = handler, !.outcome = outcome]

Text(str) == [absent |-> FALSE, s |-> str]

\* A capture that overwrites the reference at every attack.
CaptureOriginalSecret_Always(original_secret, text) == Text(text)

\* if not hasattr(self, 'original_secret'):
\*     self.original_secret = self.txt_secret.toPlainText()
CaptureOriginalSecret(original_secret, text) ==
    IF original_secret.absent THEN Text(text) ELSE original_secret

\* The embed call of _on_embed_clicked.
UiEmbedCall(w) ==
    IF w.method = "lsb" THEN LSBEmbedCall(w.cover_image, w.txt_secret)
    ELSE AdaptiveEmbedCall(w.cover_image, w.txt_secret, w.spn_threshold)

\* The extract call of _on_extract_clicked on a stego image.
UiExtractCall(w) ==
    IF w.method = "lsb" THEN LSBExtract(w.stego_image)
    ELSE AdaptiveExtract(w.stego_image, w.spn_threshold)

\* The operator call of _on_apply_attack_clicked: the slider value is the
\* quality, the kernel size (sigma keeps its default 1), the crop ratio in
\* hundredths, or, in hundredths, the second positional argument of
\* gaussian_noise, which is mean (sigma keeps its default 10).
UiAttackCall(image, attack_type, attack_param, draw) ==
    IF attack_type = "jpeg"
    THEN IF JpegQualityRejected(attack_param)
         THEN Raised("InvalidParameterError", FALSE)
         ELSE JpegResult(image, attack_param)
    ELSE IF attack_type = "blur" THEN GaussianBlur(image, attack_param, 1)
    ELSE IF attack_type = "crop" THEN CropAttack(image, attack_param)
    ELSE GaussianNoise(image, attack_param, 10, draw)

UiInit ==
    /\ StegoIdle
    /\ MetricsIdle
    /\ AttackIdle
    /\ MaskIdle
    /\ ui = NoWindow

UiFrame == UNCHANGED <<stegoVars, metricVars, attackVars, maskVars>>

\* _on_load_cover_clicked: the dialog is cancelled or read_image raises, or
\* the image read becomes cover_image.
OnLoadCoverClicked ==
    /\ \/ ui' = Done(ui, "load_cover", "failed")
       \/ \E image \in UiCovers :
              ui' = Done([ui EXCEPT !.cover_image = image], "load_cover", "ok")
    /\ UiFrame

\* The user edits the secret text box, or loads it from a file
\* (_on_load_secret_file_clicked).
EditSecret ==
    /\ \E text \in UiTexts : ui' = Done([ui EXCEPT !.txt_secret = text], "edit", "ok")
    /\ UiFrame

\* The user picks the other entry of the method combo box.
OnEmbedMethodChanged ==
    /\ \E method \in {"lsb", "adaptive"} \ {ui.method} :
           ui' = Done([ui EXCEPT !.method = method], "method", "ok")
    /\ UiFrame

\* _on_embed_clicked.  _update_metrics catches what it raises and leaves
\* the BER label reset.
OnEmbedClicked ==
    /\ ui.txt_secret \in UiTexts
    /\ IF ui.cover_image = NoImage \/ ui.txt_secret = <<>>
       THEN ui' = Done(ui, "embed", "warned")
       ELSE \E r \in {UiEmbedCall(ui)} :
                IF r.err # "none"
                THEN ui' = Done(ui, "embed", "failed")
                ELSE ui' = Done([ui EXCEPT !.stego_image = r.ret, !.ber = NoMetric],
                                "embed", "ok")
    /\ UiFrame

\* _on_extract_clicked.  The image read is the stego image when there is
\* one, else the attacked image when there is one.
OnExtractClicked ==
    /\ IF ui.stego_image = NoImage /\ ui.attacked_image = NoRet
       THEN ui' = Done(ui, "extract", "warned")
       ELSE \E extracted_data \in IF ui.stego_image = NoImage THEN UiExtracted
                                  ELSE {UiExtractCall(ui)} :
                IF ~ui.original_secret.absent /\ ui.attacked_image # NoRet
                THEN ui' = Done([ui EXCEPT
                                    !.txt_secret = extracted_data,
                                    !.ber = CalculateBerText(ui.original_secret,
                                                             Text(extracted_data)),
                                    !.ber_ref = ui.original_secret],
                                "extract", "ok")
                ELSE ui' = Done([ui EXCEPT !.txt_secret = extracted_data],
                                "extract", "ok")
    /\ UiFrame

\* _update_ber_chart, called with the window w as _on_apply_attack_clicked
\* has left it: it catches what it raises, and then changes nothing.
UpdateBerChart(w, extracted) ==
    IF extracted.absent THEN w
    ELSE [w EXCEPT !.ber = CalculateBerText(w.original_secret, extracted),
                   !.ber_ref = w.original_secret]

\* _on_apply_attack_clicked.
OnApplyAttackClicked ==
    /\ IF ui.stego_image = NoImage
       THEN ui' = Done(ui, "apply_attack", "warned")
       ELSE \E attack_type \in {"jpeg", "blur", "crop", "noise"} :
            \E attack_param \in UiAttackParams(attack_type) :
            \E draw \in Draws :
            \E r \in {UiAttackCall(ui.stego_image, attack_type, attack_param, draw)} :
                IF r.err # "none"
                THEN ui' = Done(ui, "apply_attack", "failed")
                ELSE \E extracted \in {NoText} \cup {Text(t) : t \in UiExtracted} :
                         ui' = Done(UpdateBerChart(
                                        [ui EXCEPT
                                            !.attacked_image = r,
                                            !.original_secret =
                                                CaptureOriginalSecret(@, ui.txt_secret)],
                                        extracted),
                                    "apply_attack", "ok")
    /\ UiFrame

UiNext ==
    \/ OnLoadCoverClicked
    \/ EditSecret
    \/ OnEmbedMethodChanged
    \/ OnEmbedClicked
    \/ OnExtractClicked
    \/ OnApplyAttackClicked

SpecUi == UiInit /\ [][UiNext]_vars

\* C26: the mask create_embedding_mask returns has a cell for each cell of
\* the gradient, 1 where the gradient is strictly above the threshold and 0
\* elsewhere; it is all ones at a threshold below 0 and all zeros at one of
\* 255 or more; and the mask of the same gradient at a threshold no higher
\* selects every pixel the first mask selects.
C26_MaskByThreshold ==
    /\ \A c \in 1..Len(mask_out) :
           LET mask == mask_out[c].mask
               t == mask_out[c].t
           IN  /\ Len(mask) = Len(mask_in.gradient)
               /\ \A p \in 1..Len(mask) :
                      /\ mask[p] \in {0, 1}
                      /\ mask[p] = 1 <=> mask_in.gradient[p] > t
               /\ t < 0 => \A p \in 1..Len(mask) : mask[p] = 1
               /\ t >= 255 => \A p \in 1..Len(mask) : mask[p] = 0
    /\ Len(mask_out) = 2
        => \A p \in 1..Len(mask_in.gradient) :
               mask_out[1].mask[p] = 1 => mask_out[2].mask[p] = 1

\* The gradient (1, 255) at threshold 1 and then at 0: the pixel whose
\* gradient equals the first threshold is left out, and the lower threshold
\* adds it.
C26_Witness ==
    /\ mask_in.gradient = <<1, 255>>
    /\ Len(mask_out) = 2
    /\ mask_out[1] = [t |-> 1, mask |-> <<0, 1>>]
    /\ mask_out[2] = [t |-> 0, mask |-> <<1, 1>>]

\* C27: the capacity the adaptive engine reports for an image at a
\* threshold is the number of pixels whose gradient is above the threshold,
\* times 3 on a colour image, divided by 8 and rounded down; it is at most
\* the capacity the LSB engine reports for the image, at least the adaptive
\* capacity at any higher threshold and at most that at any lower one.
C27_AdaptiveCapacity ==
    cap.by = "adaptive"
    => \A gradient \in {ComputeSobelGradient(cover)} :
           LET masked == Cardinality({p \in 1..Len(gradient) : gradient[p] > cap.thr})
               channels == IF NDim(cover) = 2 THEN 1 ELSE 3
           IN  /\ cap.bytes = (masked * channels) \div 8
               /\ cap.bytes <= LSBGetEmbeddingCapacity(cover)
               /\ \A t \in Thresholds \cup MaskThresholds :
                      /\ t <= cap.thr => AdaptiveGetEmbeddingCapacity(cover, t) >= cap.bytes
                      /\ t >= cap.thr => AdaptiveGetEmbeddingCapacity(cover, t) <= cap.bytes

\* A colour cover that holds 1 byte at threshold 30, none at 254, more
\* than 1 below 0, and 3 for the LSB engine.
C27_Witness ==
    /\ cap = [by |-> "adaptive", thr |-> 30, bytes |-> 1]
    /\ NDim(cover) = 3
    /\ AdaptiveGetEmbeddingCapacity(cover, 254) = 0
    /\ AdaptiveGetEmbeddingCapacity(cover, -1) > 1
    /\ LSBGetEmbeddingCapacity(cover) = 3

C29_BlurKernelOdd ==
    (a_pc = "done" /\ a_call.op = "blur" /\ a_ret.err = "none")
    => LET asked == a_call.kernel_size
           even == \E n \in -4..4 : asked = 2 * n
       IN  /\ a_ret.lib = "GaussianBlur"
           /\ a_ret.p1 = (IF even THEN asked + 1 ELSE asked)
           /\ \E n \in -4..4 : a_ret.p1 = 2 * n + 1
           /\ a_ret.p1 >= asked
           /\ a_ret.p2 = a_call.sigma

\* A kernel size of 2 with sigma 10: the blur is made with 3 and 10.
C29_Witness ==
    /\ a_pc = "done" /\ a_call.op = "blur" /\ a_call.via = "direct"
    /\ a_call.kernel_size = 2 /\ a_call.sigma = 10
    /\ a_ret.err = "none" /\ a_ret.p1 = 3 /\ a_ret.p2 = 10

\* C30: in the main window original_secret changes only when it does not
\* exist yet, in an apply-attack handler that succeeds, and to the content
\* the secret text box has then; every attack that succeeds leaves it set
\* and needs a stego image; the stego image is set only by an embed that
\* succeeds and the attacked image only by an attack that succeeds; and the
\* reference text of the last BER computation, if any was made, is
\* original_secret.
C30_ReferenceCapturedOnce ==
    [][/\ ui'.original_secret # ui.original_secret
           => /\ ui.original_secret.absent
              /\ ui'.handler = "apply_attack" /\ ui'.outcome = "ok"
              /\ ui'.original_secret = [absent |-> FALSE, s |-> ui.txt_secret]
       /\ (ui'.handler = "apply_attack" /\ ui'.outcome = "ok")
           => /\ ui.stego_image # NoImage
              /\ ~ui'.original_secret.absent
              /\ ui'.attacked_image # NoRet
       /\ ui'.attacked_image # ui.attacked_image
           => (ui'.handler = "apply_attack" /\ ui'.outcome = "ok")
       /\ ui'.stego_image # ui.stego_image
           => (ui'.handler = "embed" /\ ui'.outcome = "ok")
       /\ ~ui'.ber_ref.absent => ui'.ber_ref = ui'.original_secret
      ]_vars

\* An attack has succeeded while the text box held 'B', the reference
\* being the 'A' an earlier attack captured, and the BER was computed
\* against 'A'.
C30_Witness ==
    /\ ui.handler = "apply_attack" /\ ui.outcome = "ok"
    /\ ui.original_secret = [absent |-> FALSE, s |-> <<65>>]
    /\ ui.txt_secret = <<66>>
    /\ ui.ber.op = "ber_text"
    /\ ui.ber_ref = [absent |-> FALSE, s |-> <<65>>]

=============================================================================
